---- MODULE Spec2Model ----
(***************************************************************************)
(* Model of the product resolution pipeline of src/app.py:                 *)
(* extract_sku, resolve_product_url (with URL_CACHE), resolve_image_url    *)
(* and embed_image_data_uri.                                               *)
(*                                                                         *)
(* Strings are sequences of symbols.  A symbol is one character ("A", "-", *)
(* "/") or an indivisible word of a URL ("crestron.com", "Products").      *)
(* Python's `t in s` is Contains(s, t): t occurs as a contiguous run of    *)
(* symbols of s.  Python's None is the value None below, which no string   *)
(* of the model equals.                                                    *)
(***************************************************************************)
EXTENDS Integers, Sequences, FiniteSets, TLC

VARIABLES
    URL_CACHE,   \* the module-level dict: cache key -> resolved URL
    frame,       \* per thread: the running call, its arguments, locals, requests and result
    firstRet,    \* history: cache key -> the value the first completed call on it returned
    skuName,     \* the argument of extract_sku (specification SpecSku)
    skuOut       \* its result

skuVars == <<skuName, skuOut>>

urlVars == <<URL_CACHE, frame, firstRet>>

vars == <<URL_CACHE, frame, firstRet, skuName, skuOut>>

(***************************************************************************)
(* Bounds of the model.                                                    *)
(***************************************************************************)
MaxNameLen == 7

MaxCacheKeys == 2

\* the most words in a product name made of words
MaxSkuWords == 3

\* the longest URL given to the size rewrite
MaxUrlLen == 7

(***************************************************************************)
(* Strings.                                                                *)
(***************************************************************************)
None == <<"<None>">>

Truthy(s) == s # None /\ s # <<>>

Contains(s, t) ==
    \E i \in 0..(Len(s) - Len(t)) : SubSeq(s, i + 1, i + Len(t)) = t

StartsWith(s, t) == Len(t) <= Len(s) /\ SubSeq(s, 1, Len(t)) = t

Min(a, b) == IF a <= b THEN a ELSE b

UpperLetters == {"A", "B", "C", "U", "X", "Z"}

LowerLetters == {"a", "b", "c", "u", "x", "z"}

Digits == {"0", "1", "3", "4"}

\* str.upper() on the symbols of the model that it changes: the letters and the
\* words of the names and URLs
UpperOf ==
    ("a" :> "A") @@ ("b" :> "B") @@ ("c" :> "C") @@ ("u" :> "U") @@ ("x" :> "X") @@ ("z" :> "Z") @@
    ("r" :> "R") @@ ("e" :> "E") @@ ("s" :> "S") @@ ("t" :> "T") @@ ("o" :> "O") @@ ("n" :> "N") @@
    ("p" :> "P") @@ ("q" :> "Q") @@ ("https" :> "HTTPS") @@ ("www" :> "WWW") @@
    ("crestron.com" :> "CRESTRON.COM") @@ ("Products" :> "PRODUCTS") @@
    ("Workspace-Solutions" :> "WORKSPACE-SOLUTIONS") @@
    ("Unified-Communications" :> "UNIFIED-COMMUNICATIONS") @@
    ("Crestron-Flex-Integrator-Kits" :> "CRESTRON-FLEX-INTEGRATOR-KITS") @@
    ("Crestron-Flex-Tabletop-Conferencing-Systems" :> "CRESTRON-FLEX-TABLETOP-CONFERENCING-SYSTEMS") @@
    ("Crestron-Flex-Wall-Mount-Conferencing-Systems" :> "CRESTRON-FLEX-WALL-MOUNT-CONFERENCING-SYSTEMS") @@
    ("Intelligent-Audio" :> "INTELLIGENT-AUDIO") @@ ("Catalog" :> "CATALOG") @@
    ("Flex-Conferencing" :> "FLEX-CONFERENCING") @@ ("Integrator-Kit" :> "INTEGRATOR-KIT") @@
    ("Tabletop" :> "TABLETOP") @@ ("Wall-Mount" :> "WALL-MOUNT") @@
    ("Distributed" :> "DISTRIBUTED") @@ ("Inactive" :> "INACTIVE") @@
    ("Discontinued" :> "DISCONTINUED") @@ ("duckduckgo.com" :> "DUCKDUCKGO.COM") @@
    ("html" :> "HTML") @@ ("site" :> "SITE") @@ ("en-US" :> "EN-US") @@ ("Search" :> "SEARCH") @@
    ("Featured" :> "FEATURED") @@ ("hub" :> "HUB") @@
    ("Control-and-Management" :> "CONTROL-AND-MANAGEMENT") @@ ("example.com" :> "EXAMPLE.COM") @@
    ("Support" :> "SUPPORT") @@ ("embed.widencdn.net" :> "EMBED.WIDENCDN.NET") @@
    ("img" :> "IMG") @@ ("crestron" :> "CRESTRON") @@ ("px@1x" :> "PX@1X") @@
    ("shop.example.com" :> "SHOP.EXAMPLE.COM") @@ ("bad" :> "BAD") @@ ("a1" :> "A1") @@
    ("uc" :> "UC") @@ (".png" :> ".PNG") @@ ("crestron-" :> "CRESTRON-") @@ ("Logo" :> "LOGO") @@
    ("favicon" :> "FAVICON") @@ (".ico" :> ".ICO") @@ ("cdn.example.com" :> "CDN.EXAMPLE.COM") @@
    ("social" :> "SOCIAL") @@ ("-card" :> "-CARD") @@ ("hero" :> "HERO") @@ ("1x" :> "1X") @@
    ("2x" :> "2X") @@ ("upload.wikimedia.org" :> "UPLOAD.WIKIMEDIA.ORG") @@
    ("wikipedia" :> "WIKIPEDIA") @@ ("commons" :> "COMMONS") @@ ("3f" :> "3F") @@
    ("Placeholder_view_vector.svg" :> "PLACEHOLDER_VIEW_VECTOR.SVG")

\* str.upper() on one symbol; digits and punctuation are kept
UpperSym(c) == IF c \in DOMAIN UpperOf THEN UpperOf[c] ELSE c

Upper(s) == [i \in 1..Len(s) |-> UpperSym(s[i])]

(***************************************************************************)
(* SKU_REGEX = \b[A-Z]{1,8}(?:-[A-Z0-9]{1,10}){1,8}\b, matched the way the *)
(* backtracking engine matches it: greedy quantifiers, longest repetition  *)
(* first, giving back one repetition at a time.                            *)
(***************************************************************************)
MaxHead == 8

MaxGroupLen == 10

MaxGroups == 8

IsAlnum(c) == c \in UpperLetters \cup Digits

\* \w of the regex engine
IsWordChar(c) == c \in UpperLetters \cup LowerLetters \cup Digits \cup {"_"}

IsWordAt(s, j) == j \in 1..Len(s) /\ IsWordChar(s[j])

\* \b at the position before s[i] (i = Len(s) + 1: at the end)
Boundary(s, i) == IsWordAt(s, i - 1) # IsWordAt(s, i)

RECURSIVE RunLen(_, _, _)
\* the number of consecutive symbols of s from position i on that are in set
RunLen(s, i, set) ==
    IF i > Len(s) \/ s[i] \notin set THEN 0 ELSE 1 + RunLen(s, i + 1, set)

RECURSIVE TryGroups(_, _, _), TryAlnum(_, _, _, _)
\* at position j with g groups matched: the end of the match (the position
\* after its last symbol), or 0 when no continuation matches
TryGroups(s, j, g) ==
    LET more == IF g < MaxGroups /\ j <= Len(s) /\ s[j] = "-"
                THEN TryAlnum(s, j + 1, g,
                              Min(RunLen(s, j + 1, UpperLetters \cup Digits), MaxGroupLen))
                ELSE 0
    IN  IF more # 0 THEN more
        ELSE IF g >= 1 /\ Boundary(s, j) THEN j
        ELSE 0

\* the group's [A-Z0-9]{1,10} taking n symbols from position j, then n - 1, ...
TryAlnum(s, j, g, n) ==
    IF n = 0 THEN 0
    ELSE LET r == TryGroups(s, j + n, g + 1)
         IN  IF r # 0 THEN r ELSE TryAlnum(s, j, g, n - 1)

RECURSIVE TryHead(_, _, _)
\* [A-Z]{1,8} taking n symbols from position i, then n - 1, ...
TryHead(s, i, n) ==
    IF n = 0 THEN 0
    ELSE LET r == TryGroups(s, i + n, 0)
         IN  IF r # 0 THEN r ELSE TryHead(s, i, n - 1)

\* the end of the match that starts at position i, or 0
MatchAt(s, i) ==
    IF Boundary(s, i)
    THEN TryHead(s, i, Min(RunLen(s, i, UpperLetters), MaxHead))
    ELSE 0

RECURSIVE FindAllFrom(_, _)
\* SKU_REGEX.findall: the non-overlapping matches, scanning left to right
FindAllFrom(s, i) ==
    IF i > Len(s) THEN <<>>
    ELSE LET e == MatchAt(s, i)
         IN  IF e # 0 THEN <<SubSeq(s, i, e - 1)>> \o FindAllFrom(s, e)
             ELSE FindAllFrom(s, i + 1)

SKU_REGEX_findall(s) == FindAllFrom(s, 1)

RECURSIVE InsertByLenDesc(_, _)
\* x put into a list sorted by length, longest first, after every element
\* that is at least as long (the sort is stable)
InsertByLenDesc(sorted, x) ==
    IF sorted = <<>> THEN <<x>>
    ELSE IF Len(Head(sorted)) >= Len(x)
         THEN <<Head(sorted)>> \o InsertByLenDesc(Tail(sorted), x)
         ELSE <<x>> \o sorted

RECURSIVE InsertByLenDescUnstable(_, _)
\* the sort with equal lengths reversed: x goes before an element as long as it
InsertByLenDescUnstable(sorted, x) ==
    IF sorted = <<>> THEN <<x>>
    ELSE IF Len(Head(sorted)) > Len(x)
         THEN <<Head(sorted)>> \o InsertByLenDescUnstable(Tail(sorted), x)
         ELSE <<x>> \o sorted

RECURSIVE SortedFrom(_, _, _)
SortedFrom(ms, i, acc) ==
    IF i > Len(ms) THEN acc
    ELSE SortedFrom(ms, i + 1, InsertByLenDesc(acc, ms[i]))

RECURSIVE SortedFromUnstable(_, _, _)
SortedFromUnstable(ms, i, acc) ==
    IF i > Len(ms) THEN acc
    ELSE SortedFromUnstable(ms, i + 1, InsertByLenDescUnstable(acc, ms[i]))

\* sorted(ms, key=len) read from its end: among the longest, the last match
sorted_by_len_last(ms) == SortedFromUnstable(ms, 1, <<>>)

RECURSIVE InsertByLenAsc(_, _)
\* x put into a list sorted by length, shortest first, after every element
\* that is at most as long
InsertByLenAsc(sorted, x) ==
    IF sorted = <<>> THEN <<x>>
    ELSE IF Len(Head(sorted)) <= Len(x)
         THEN <<Head(sorted)>> \o InsertByLenAsc(Tail(sorted), x)
         ELSE <<x>> \o sorted

RECURSIVE SortedAscFrom(_, _, _)
SortedAscFrom(ms, i, acc) ==
    IF i > Len(ms) THEN acc
    ELSE SortedAscFrom(ms, i + 1, InsertByLenAsc(acc, ms[i]))

\* sorted(ms, key=len) without reverse=True: the shortest match comes first
sorted_by_len_ascending(ms) == SortedAscFrom(ms, 1, <<>>)

\* sorted(matches, key=len, reverse=True)
sorted_by_len_reverse(ms) == SortedFrom(ms, 1, <<>>)

extract_sku(product_name) ==
    LET matches == SKU_REGEX_findall(Upper(product_name))
    IN  IF matches = <<>> THEN None
        ELSE sorted_by_len_reverse(matches)[1]

(***************************************************************************)
(* URLs and HTTP responses.                                                *)
(***************************************************************************)
Https == <<"https", ":", "/", "/">>

CrestronHost == <<"www", ".", "crestron.com">>

RECURSIVE Slashed(_)
\* the words of a path, each followed by "/"
Slashed(words) ==
    IF words = <<>> THEN <<>>
    ELSE <<Head(words), "/">> \o Slashed(Tail(words))

CrestronUrl(words) == Https \o CrestronHost \o <<"/">> \o Slashed(words)

\* urllib.parse.quote_plus on one symbol: letters, digits and _ . - ~ are kept
QuoteSym(c) ==
    CASE c = " " -> "+"
      [] c = ":" -> "%3A"
      [] c = "/" -> "%2F"
      [] c = "|" -> "%7C"
      [] OTHER -> c

quote_plus(s) == [i \in 1..Len(s) |-> QuoteSym(s[i])]

HtmlType == <<"text/html", ";", " ", "charset=utf-8">>

PngType == <<"image/", "png">>

\* a Content-Type that only mentions image/ in a parameter
OddType == <<"text/plain", ";", " ", "note=", "image/", "x">>

\* a response: kind "exc" is requests raising (timeout, connection error);
\* ctype None is a response without a Content-Type header; parse FALSE is a
\* body on which the HTML parser raises
Resp(ok, ctype, url, body) ==
    [kind |-> "resp", ok |-> ok, ctype |-> ctype, url |-> url, body |-> body, parse |-> TRUE]

Raised == [kind |-> "exc", ok |-> FALSE, ctype |-> None, url |-> <<>>, body |-> <<>>, parse |-> TRUE]

Unparsable(url) ==
    [kind |-> "resp", ok |-> TRUE, ctype |-> HtmlType, url |-> url, body |-> <<>>, parse |-> FALSE]

\* no request made yet
NoResp == [kind |-> "none", ok |-> FALSE, ctype |-> None, url |-> <<>>, body |-> <<>>, parse |-> TRUE]

\* r.headers.get("Content-Type", default)
ContentType(r, default) == IF r.ctype = None THEN default ELSE r.ctype

NotFoundUrl == Https \o CrestronHost \o <<"/", "4", "0", "4">>

\* requests percent-encodes the characters of a URL that are neither
\* unreserved nor reserved before it sends it; r.url is that prepared URL
RequoteSym(c) ==
    CASE c = "|" -> "%7C"
      [] c = " " -> "%20"
      [] OTHER -> c

requote_uri(u) == [i \in 1..Len(u) |-> RequoteSym(u[i])]

\* what a GET of page u may answer; without a redirect r.url is the prepared u
PageAnswers(u) ==
    { Raised,
      Resp(FALSE, HtmlType, requote_uri(u), <<>>),
      Resp(TRUE, PngType, requote_uri(u), <<>>),
      Resp(TRUE, None, requote_uri(u), <<>>),
      Resp(TRUE, HtmlType, NotFoundUrl, <<>>),
      Resp(TRUE, HtmlType, requote_uri(u), <<>>) }

\* r.ok and "text/html" in r.headers.get("Content-Type", "") and "404" not in r.url
AcceptsPage(r) ==
    /\ r.ok
    /\ Contains(ContentType(r, <<>>), <<"text/html">>)
    /\ ~Contains(r.url, <<"4", "0", "4">>)

(***************************************************************************)
(* try_known_catalog_paths: the templates, in the order of the list.       *)
(***************************************************************************)
bases ==
    << CrestronUrl(<<"Products", "Workspace-Solutions", "Unified-Communications", "Crestron-Flex-Integrator-Kits">>),
       CrestronUrl(<<"Products", "Workspace-Solutions", "Unified-Communications", "Crestron-Flex-Tabletop-Conferencing-Systems">>),
       CrestronUrl(<<"Products", "Workspace-Solutions", "Unified-Communications", "Crestron-Flex-Wall-Mount-Conferencing-Systems">>),
       CrestronUrl(<<"Products", "Workspace-Solutions", "Unified-Communications", "Intelligent-Audio">>),
       CrestronUrl(<<"Products", "Catalog", "Unified-Communications", "Flex-Conferencing", "Integrator-Kit">>),
       CrestronUrl(<<"Products", "Catalog", "Unified-Communications", "Flex-Conferencing", "Tabletop">>),
       CrestronUrl(<<"Products", "Catalog", "Unified-Communications", "Flex-Conferencing", "Wall-Mount">>),
       CrestronUrl(<<"Products", "Catalog", "Unified-Communications", "Intelligent-Audio", "Distributed">>),
       CrestronUrl(<<"Products", "Catalog", "Unified-Communications", "Intelligent-Audio", "USB">>) >>

\* f".../Products/Catalog/Inactive/Discontinued/{first}/{sku}"
disc(sku) ==
    CrestronUrl(<<"Products", "Catalog", "Inactive", "Discontinued",
                  UpperSym(IF sku # <<>> THEN sku[1] ELSE "U")>>) \o sku

\* the probes with the discontinued path tried first
ProbeUrlDiscFirst(sku, i) == IF i = 1 THEN disc(sku) ELSE bases[i - 1] \o sku

\* the URL of the i-th probe: the templates, then the discontinued path
ProbeUrl(sku, i) == IF i <= Len(bases) THEN bases[i] \o sku ELSE disc(sku)

NumProbes == Len(bases) + 1

(***************************************************************************)
(* search_catalog_via_duckduckgo and search_crestron_for_sku.              *)
(***************************************************************************)
DdgPrefix == Https \o <<"duckduckgo.com", "/", "html", "/", "?", "q", "=">>

ddg_urls(query) ==
    << DdgPrefix \o quote_plus(<<"site", ":", "crestron.com", " ", "Products", "/", "Catalog", " ">> \o query),
       DdgPrefix \o quote_plus(<<"site", ":", "crestron.com", " ">> \o query) >>

\* href and "crestron.com" in href and "/Products/" in href
\*      and ("/Catalog/" in href or "/Workspace-Solutions/" in href)
DdgAnchorOk(href) ==
    /\ Truthy(href)
    /\ Contains(href, <<"crestron.com">>)
    /\ Contains(href, <<"/", "Products", "/">>)
    /\ \/ Contains(href, <<"/", "Catalog", "/">>)
       \/ Contains(href, <<"/", "Workspace-Solutions", "/">>)

RECURSIVE FirstAnchor(_, _)
\* the loop over soup.find_all("a", href=True): the first href that qualifies
FirstAnchor(hrefs, i) ==
    IF i > Len(hrefs) THEN None
    ELSE IF DdgAnchorOk(hrefs[i]) THEN hrefs[i]
    ELSE FirstAnchor(hrefs, i + 1)

SearchPrefix == Https \o CrestronHost \o <<"/", "en-US", "/", "Search", "?", "q", "=">>

\* the two queries of search_crestron_for_sku, which no code path calls
search_crestron_queries(sku) ==
    << SearchPrefix \o quote_plus(sku),
       Https \o CrestronHost \o <<"/", "Search", "?", "q", "=">> \o quote_plus(sku) >>

\* the fallback without its default query: nothing to return for no query
fallback_url_no_default(query) ==
    IF Truthy(query) THEN SearchPrefix \o quote_plus(query) ELSE None

\* f"https://www.crestron.com/en-US/Search?q={quote_plus(query or 'Crestron')}"
fallback_url(query) ==
    SearchPrefix \o quote_plus(IF Truthy(query) THEN query
                                ELSE <<"C", "r", "e", "s", "t", "r", "o", "n">>)

\* f"{product_name}||{proposed_url or ''}"
cache_key(product_name, proposed_url) ==
    product_name \o <<"|", "|">> \o (IF Truthy(proposed_url) THEN proposed_url ELSE <<>>)

\* d[k] = v
DictSet(d, k, v) == [x \in DOMAIN d \cup {k} |-> IF x = k THEN v ELSE d[x]]

(***************************************************************************)
(* Inputs and answers of the environment.                                  *)
(***************************************************************************)
Threads == {"t1", "t2"}

\* the thread of the sequential specification
MainThread == "t1"

SkuName == <<"U", "C", "-", "B", "X", "3", "0", "-", "Z">>

Names == { <<>>, <<" ">>, SkuName, <<"c", "a", "b">> }

ProposedPage == CrestronUrl(<<"Products", "Featured">>) \o <<"hub">>

\* names and proposed URLs that hold the separator of the cache key
KeyNames == { SkuName, SkuName \o <<"|", "|">> \o ProposedPage }

KeyProposedUrls == { None, ProposedPage \o <<"|", "|">> }

\* extract_sku on the product names of the calls
sku_of == [n \in Names \cup KeyNames |-> extract_sku(n)]

ProposedUrls == { None, <<>>, ProposedPage }

CatalogDir == CrestronUrl(<<"Products", "Catalog", "Control-and-Management">>)

\* hrefs a result page may hold
Hrefs ==
    { <<>>,
      Https \o <<"example.com", "/">> \o SkuName,
      CrestronUrl(<<"Products", "Support">>),
      CatalogDir \o <<"X", "-", "1">>,
      CatalogDir \o <<"u", "c", "-", "b", "x", "3", "0", "-", "z">> }

MaxAnchors == 2

MaxTags == 2

SearchPages == UNION { [1..n -> Hrefs] : n \in 0..MaxAnchors }

\* what a GET of a result page u may answer
SearchAnswers(u) ==
    { Raised, Unparsable(u), Resp(FALSE, HtmlType, u, <<>>), Resp(TRUE, PngType, u, <<>>) }
    \cup { Resp(TRUE, HtmlType, u, body) : body \in SearchPages }

(***************************************************************************)
(* The frame of a call.                                                    *)
(***************************************************************************)
NoRet == [kind |-> "none", val |-> None]

Returned(v) == [kind |-> "return", val |-> v]

Raise == [kind |-> "raise", val |-> None]

IdleFrame ==
    [ pc |-> "idle", op |-> "none", name |-> <<>>, proposed |-> None, key |-> <<>>,
      sku |-> None, query |-> None, i |-> 0, via |-> "none", after |-> FALSE,
      image_url |-> None, product_url |-> None, test_url |-> None,
      uniq |-> <<>>, og |-> None, url |-> None, resp |-> NoResp, presp |-> NoResp,
      hresp |-> NoResp, stage |-> "head",
      log |-> <<>>, ret |-> NoRet ]

Request(method, url, hit) == [method |-> method, url |-> url, hit |-> hit]

\* whether an exception raised at this place is caught by a try block: lines 427-433, 358-372, 405-416, 232-235, 236-239, 247-258,
\* 273-326, 463-467, 477-481, 491-497, 499-505
InTry(site) ==
    site \in { "url_proposed", "probe", "ddg", "head", "get", "og", "scrape",
               "img_proposed", "img_og_check", "embed", "placeholder" }

(***************************************************************************)
(* resolve_product_url, one action per step.                               *)
(***************************************************************************)
\* the terminal fallback returned without being stored
UrlReturnFallbackNotStored(p, f, v, via) ==
    /\ URL_CACHE' = IF via = "fallback" THEN URL_CACHE ELSE DictSet(URL_CACHE, f.key, v)
    /\ frame' = [frame EXCEPT ![p] = [f EXCEPT !.pc = "done", !.via = via, !.ret = Returned(v)]]
    /\ firstRet' = IF f.key \in DOMAIN firstRet THEN firstRet ELSE DictSet(firstRet, f.key, v)
    /\ UNCHANGED skuVars

\* the call returns v from the return statement `via`, having stored it
UrlReturn(p, f, v, via) ==
    /\ URL_CACHE' = DictSet(URL_CACHE, f.key, v)
    /\ frame' = [frame EXCEPT ![p] = [f EXCEPT !.pc = "done", !.via = via, !.ret = Returned(v)]]
    /\ firstRet' = IF f.key \in DOMAIN firstRet THEN firstRet ELSE DictSet(firstRet, f.key, v)
    /\ UNCHANGED skuVars

\* the call ends with the exception propagating to the caller
UrlRaise(p, f) ==
    /\ frame' = [frame EXCEPT ![p] = [f EXCEPT !.pc = "done", !.via = "raise", !.ret = Raise]]
    /\ UNCHANGED <<URL_CACHE, firstRet, skuVars>>

UrlGoto(p, f) ==
    /\ frame' = [frame EXCEPT ![p] = f]
    /\ UNCHANGED <<URL_CACHE, firstRet, skuVars>>

Callable(p) == frame[p].pc \in {"idle", "done"}

\* lines 419-426: the call, the key, the cache lookup
ResolveProductUrlCall(p, names, proposeds) ==
    /\ Callable(p)
    /\ \E name \in names, proposed \in proposeds :
         LET key == cache_key(name, proposed)
             f == [IdleFrame EXCEPT !.op = "resolve_product_url", !.name = name,
                                    !.proposed = proposed, !.key = key,
                                    !.after = (key \in DOMAIN firstRet)]
         IN  /\ key \in DOMAIN URL_CACHE \/ Cardinality(DOMAIN URL_CACHE) < MaxCacheKeys
             /\ IF key \in DOMAIN URL_CACHE
                THEN /\ frame' = [frame EXCEPT ![p] = [f EXCEPT !.pc = "done", !.via = "cache",
                                                         !.ret = Returned(URL_CACHE[key])]]
                     /\ firstRet' = IF key \in DOMAIN firstRet THEN firstRet
                                    ELSE DictSet(firstRet, key, URL_CACHE[key])
                     /\ UNCHANGED <<URL_CACHE, skuVars>>
                ELSE UrlGoto(p, [f EXCEPT !.pc = IF Truthy(proposed) THEN "proposed" ELSE "sku"])

ResolveProductUrlEnter(p) == ResolveProductUrlCall(p, Names, ProposedUrls)

\* lines 427-433: GET the proposed URL
UrlProposed(p) ==
    /\ frame[p].pc = "proposed"
    /\ \E r \in PageAnswers(frame[p].proposed) :
         LET hit == r.kind = "resp" /\ AcceptsPage(r)
             f == [frame[p] EXCEPT !.log = Append(@, Request("GET", frame[p].proposed, hit))]
         IN  IF r.kind = "exc" /\ ~InTry("url_proposed") THEN UrlRaise(p, f)
             ELSE IF hit THEN UrlReturn(p, f, r.url, "proposed")
             ELSE UrlGoto(p, [f EXCEPT !.pc = "sku"])

\* lines 436-437: sku = extract_sku(product_name or "")
UrlSku(p) ==
    /\ frame[p].pc = "sku"
    /\ LET sku == sku_of[frame[p].name]
       IN  UrlGoto(p, [frame[p] EXCEPT !.sku = sku,
                                       !.pc = IF Truthy(sku) THEN "probe" ELSE "query",
                                       !.i = IF Truthy(sku) THEN 1 ELSE 0])

\* lines 356-373, 438-441: one probe of try_known_catalog_paths
UrlProbe(p) ==
    /\ frame[p].pc = "probe"
    /\ LET u == ProbeUrl(frame[p].sku, frame[p].i)
       IN  \E r \in PageAnswers(u) :
             LET hit == r.kind = "resp" /\ AcceptsPage(r)
                 f == [frame[p] EXCEPT !.log = Append(@, Request("GET", u, hit))]
             IN  IF r.kind = "exc" /\ ~InTry("probe") THEN UrlRaise(p, f)
                 ELSE IF hit THEN UrlReturn(p, f, r.url, "probe")
                 ELSE IF f.i < NumProbes THEN UrlGoto(p, [f EXCEPT !.i = @ + 1])
                 ELSE UrlGoto(p, [f EXCEPT !.pc = "query", !.i = 0])

\* lines 444-445: query = sku or product_name
UrlQuery(p) ==
    /\ frame[p].pc = "query"
    /\ LET query == IF Truthy(frame[p].sku) THEN frame[p].sku ELSE frame[p].name
       IN  UrlGoto(p, [frame[p] EXCEPT !.query = query,
                                       !.pc = IF Truthy(query) THEN "ddg" ELSE "fallback",
                                       !.i = IF Truthy(query) THEN 1 ELSE 0])

\* lines 404-417, 446-449: one result page of search_catalog_via_duckduckgo
UrlDdg(p) ==
    /\ frame[p].pc = "ddg"
    /\ LET u == ddg_urls(frame[p].query)[frame[p].i]
       IN  \E r \in SearchAnswers(u) :
             LET failed == r.kind = "exc" \/ ~r.parse
                 usable == ~failed /\ r.ok /\ Contains(ContentType(r, <<>>), <<"text/html">>)
                 href == IF usable THEN FirstAnchor(r.body, 1) ELSE None
                 hit == Truthy(href)
                 f == [frame[p] EXCEPT !.log = Append(@, Request("GET", u, hit))]
             IN  IF failed /\ ~InTry("ddg") THEN UrlRaise(p, f)
                 ELSE IF hit THEN UrlReturn(p, f, href, "ddg")
                 ELSE IF f.i < Len(ddg_urls(f.query)) THEN UrlGoto(p, [f EXCEPT !.i = @ + 1])
                 ELSE UrlGoto(p, [f EXCEPT !.pc = "fallback", !.i = 0])

\* lines 452-454: the search page of the catalog, no request made
UrlFallback(p) ==
    /\ frame[p].pc = "fallback"
    /\ UrlReturn(p, frame[p], fallback_url(frame[p].query), "fallback")

(***************************************************************************)
(* Image URLs: lower(), urljoin, urlparse().netloc, the logo test and the  *)
(* size rewrite.                                                           *)
(***************************************************************************)
\* str.lower() on the symbols of the model that it changes: the letters and the
\* words of the URLs
LowerOf ==
    ("A" :> "a") @@ ("B" :> "b") @@ ("C" :> "c") @@ ("U" :> "u") @@ ("X" :> "x") @@ ("Z" :> "z") @@
    ("Products" :> "products") @@ ("Workspace-Solutions" :> "workspace-solutions") @@
    ("Unified-Communications" :> "unified-communications") @@
    ("Crestron-Flex-Integrator-Kits" :> "crestron-flex-integrator-kits") @@
    ("Crestron-Flex-Tabletop-Conferencing-Systems" :> "crestron-flex-tabletop-conferencing-systems") @@
    ("Crestron-Flex-Wall-Mount-Conferencing-Systems" :> "crestron-flex-wall-mount-conferencing-systems") @@
    ("Intelligent-Audio" :> "intelligent-audio") @@ ("Catalog" :> "catalog") @@
    ("Flex-Conferencing" :> "flex-conferencing") @@ ("Integrator-Kit" :> "integrator-kit") @@
    ("Tabletop" :> "tabletop") @@ ("Wall-Mount" :> "wall-mount") @@
    ("Distributed" :> "distributed") @@ ("USB" :> "usb") @@ ("Inactive" :> "inactive") @@
    ("Discontinued" :> "discontinued") @@ ("en-US" :> "en-us") @@ ("Search" :> "search") @@
    ("Featured" :> "featured") @@ ("Control-and-Management" :> "control-and-management") @@
    ("Support" :> "support") @@ ("Logo" :> "logo") @@
    ("Placeholder_view_vector.svg" :> "placeholder_view_vector.svg") @@ ("%3A" :> "%3a") @@
    ("%2F" :> "%2f") @@ ("%7C" :> "%7c")

\* str.lower() on one symbol; digits and punctuation are kept
LowerSym(c) == IF c \in DOMAIN LowerOf THEN LowerOf[c] ELSE c

Lower(s) == [k \in 1..Len(s) |-> LowerSym(s[k])]

LogoWords == <<"logo", "favicon", "ogimage", "social", "icon">>

\* the keywords looked for in the URL as it is written, without lower()
looks_like_logo_case_sensitive(url) ==
    \E k \in 1..Len(LogoWords) : Contains(url, <<LogoWords[k]>>)

\* any(x in url.lower() for x in ["logo", "favicon", "ogimage", "social", "icon"])
looks_like_logo(url) ==
    \E k \in 1..Len(LogoWords) : Contains(Lower(url), <<LogoWords[k]>>)

HasScheme(u) == Len(u) >= 2 /\ u[1] \in {"https", "http"} /\ u[2] = ":"

RECURSIVE IndexFrom(_, _, _)
\* the first position >= i of symbol c in s, or 0
IndexFrom(s, c, i) ==
    IF i > Len(s) THEN 0 ELSE IF s[i] = c THEN i ELSE IndexFrom(s, c, i + 1)

RECURSIVE LastIndex(_, _, _)
\* the last position <= i of symbol c in s, or 0
LastIndex(s, c, i) ==
    IF i < 1 THEN 0 ELSE IF s[i] = c THEN i ELSE LastIndex(s, c, i - 1)

\* the end of scheme://netloc of an absolute URL
OriginEnd(u) ==
    LET slash == IndexFrom(u, "/", 5)
    IN  IF slash = 0 THEN Len(u) ELSE slash - 1

\* urlparse(u).netloc, of scheme://netloc/path and of //netloc/path
netloc(u) ==
    IF HasScheme(u) /\ Len(u) >= 4 /\ u[3] = "/" /\ u[4] = "/"
    THEN SubSeq(u, 5, OriginEnd(u))
    ELSE IF StartsWith(u, <<"/", "/">>)
    THEN LET slash == IndexFrom(u, "/", 3)
         IN  SubSeq(u, 3, IF slash = 0 THEN Len(u) ELSE slash - 1)
    ELSE <<>>

\* urlsplit raises ValueError("Invalid IPv6 URL") on a netloc that holds one
\* square bracket without the other
urlsplit_raises(u) ==
    LET n == netloc(u)
    IN  (\E i \in 1..Len(n) : n[i] = "[") # (\E i \in 1..Len(n) : n[i] = "]")

\* urljoin parses both of its arguments
urljoin_raises(base, url) == urlsplit_raises(base) \/ urlsplit_raises(url)

\* urljoin(base, url) for an absolute base: an absolute url, //host/path,
\* /path, the empty url and a relative path
urljoin(base, url) ==
    IF HasScheme(url) THEN url
    ELSE IF ~HasScheme(base) THEN url
    ELSE IF StartsWith(url, <<"/", "/">>) THEN <<base[1], ":">> \o url
    ELSE IF StartsWith(url, <<"/">>) THEN SubSeq(base, 1, OriginEnd(base)) \o url
    ELSE IF url = <<>> THEN base
    ELSE LET cut == LastIndex(base, "/", Len(base))
         IN  IF cut > OriginEnd(base) THEN SubSeq(base, 1, cut) \o url
             ELSE SubSeq(base, 1, OriginEnd(base)) \o <<"/">> \o url

WidenPath == <<"embed.widencdn.net", "/", "img", "/", "crestron">>

TargetSize == <<"/", "1", "0", "0", "0", "px@1x", "/">>

\* the end of a match of /(\d+)px@1x/ that starts at position i, or 0
SizeMatchEnd(u, i) ==
    LET n == RunLen(u, i + 1, {"0", "1", "2", "3", "4", "5", "6", "7", "8", "9"})
    IN  IF /\ i <= Len(u) /\ u[i] = "/"
           /\ n >= 1
           /\ i + n + 2 <= Len(u)
           /\ u[i + n + 1] = "px@1x"
           /\ u[i + n + 2] = "/"
        THEN i + n + 3
        ELSE 0

RECURSIVE SubSizeFrom(_, _)
\* re.sub(r"/(\d+)px@1x/", "/1000px@1x/", u): the matches are taken left to
\* right, each search starting where the previous match ended
SubSizeFrom(u, i) ==
    IF i > Len(u) THEN <<>>
    ELSE LET e == SizeMatchEnd(u, i)
         IN  IF e # 0 THEN TargetSize \o SubSizeFrom(u, e)
             ELSE <<u[i]>> \o SubSizeFrom(u, i + 1)

RECURSIVE SubSizeDroppingSlash(_, _)
\* the replacement written without its closing slash: "/1000px@1x"
SubSizeDroppingSlash(u, i) ==
    IF i > Len(u) THEN <<>>
    ELSE LET e == SizeMatchEnd(u, i)
         IN  IF e # 0
             THEN SubSeq(TargetSize, 1, Len(TargetSize) - 1) \o SubSizeDroppingSlash(u, e)
             ELSE <<u[i]>> \o SubSizeDroppingSlash(u, i + 1)

upgrade_size_dropping_slash(u) == SubSizeDroppingSlash(u, 1)

upgrade_size(u) == SubSizeFrom(u, 1)

(***************************************************************************)
(* The HTML of a product page: a sequence of tags in document order.       *)
(***************************************************************************)
\* <img src=v1 data-src=v2>; an attribute that is absent is None
Img(src, datasrc) == [tag |-> "img", attr |-> "", key |-> "", v1 |-> src, v2 |-> datasrc]

\* <source srcset=v1>
Source(srcset) == [tag |-> "source", attr |-> "", key |-> "", v1 |-> srcset, v2 |-> None]

\* <meta attr=key content=v1>, attr being property or name
Meta(attr, key, content) ==
    [tag |-> "meta", attr |-> attr, key |-> key, v1 |-> content, v2 |-> None]

NoTag == [tag |-> "none", attr |-> "", key |-> "", v1 |-> None, v2 |-> None]

RECURSIVE FindAll(_, _)
\* soup.find_all(tag): the tags of that name, in document order
FindAll(body, tag) ==
    IF body = <<>> THEN <<>>
    ELSE (IF Head(body).tag = tag THEN <<Head(body)>> ELSE <<>>) \o FindAll(Tail(body), tag)

RECURSIVE SplitOn(_, _)
\* s.split(sep)
SplitOn(s, sep) ==
    LET k == IndexFrom(s, sep, 1)
    IN  IF k = 0 THEN <<s>>
        ELSE <<SubSeq(s, 1, k - 1)>> \o SplitOn(SubSeq(s, k + 1, Len(s)), sep)

RECURSIVE Strip(_)
\* s.strip()
Strip(s) ==
    IF s # <<>> /\ s[1] = " " THEN Strip(Tail(s))
    ELSE IF s # <<>> /\ s[Len(s)] = " " THEN Strip(SubSeq(s, 1, Len(s) - 1))
    ELSE s

\* part.strip().split(" ")[0]
url_part(part) == SplitOn(Strip(part), " ")[1]

IsWiden(u) == Contains(u, WidenPath)

\* lines 284-289: the candidates of one img tag, src then data-src
ImgCandidates(img, page_url) ==
    LET one(v) == IF Truthy(v) /\ IsWiden(urljoin(page_url, v))
                  THEN <<urljoin(page_url, v)>> ELSE <<>>
    IN  one(img.v1) \o one(img.v2)

RECURSIVE PartsCandidates(_, _)
\* lines 295-300: the candidates of the entries of one srcset
PartsCandidates(parts, page_url) ==
    IF parts = <<>> THEN <<>>
    ELSE LET up == url_part(Head(parts))
             absu == urljoin(page_url, up)
         IN  (IF up # <<>> /\ IsWiden(absu) THEN <<absu>> ELSE <<>>)
                 \o PartsCandidates(Tail(parts), page_url)

SourceCandidates(source, page_url) ==
    IF Truthy(source.v1) THEN PartsCandidates(SplitOn(source.v1, ","), page_url) ELSE <<>>

RECURSIVE FlatMapImg(_, _), FlatMapSource(_, _)
FlatMapImg(tags, page_url) ==
    IF tags = <<>> THEN <<>>
    ELSE ImgCandidates(Head(tags), page_url) \o FlatMapImg(Tail(tags), page_url)

FlatMapSource(tags, page_url) ==
    IF tags = <<>> THEN <<>>
    ELSE SourceCandidates(Head(tags), page_url) \o FlatMapSource(Tail(tags), page_url)

\* lines 279-300: every img tag first, then every source tag
cdn_candidates(body, page_url) ==
    FlatMapImg(FindAll(body, "img"), page_url)
        \o FlatMapSource(FindAll(body, "source"), page_url)

RECURSIVE Dedup(_, _)
\* lines 309-312: the first occurrence of each candidate
Dedup(cands, seen) ==
    IF cands = <<>> THEN <<>>
    ELSE IF Head(cands) \in seen THEN Dedup(Tail(cands), seen)
    ELSE <<Head(cands)>> \o Dedup(Tail(cands), seen \cup {Head(cands)})

RECURSIVE FindMeta(_, _, _)
\* soup.find("meta", attrs={attr: key}): the first such tag, or None
FindMeta(body, attr, key) ==
    IF body = <<>> THEN NoTag
    ELSE IF Head(body).tag = "meta" /\ Head(body).attr = attr /\ Head(body).key = key
         THEN Head(body)
    ELSE FindMeta(Tail(body), attr, key)

OgKeys == <<"og:image", "twitter:image", "og:image:url">>

RECURSIVE FindMetaEither(_, _)
\* the first meta tag of the key, whichever attribute declares it
FindMetaEither(body, key) ==
    IF body = <<>> THEN NoTag
    ELSE IF Head(body).tag = "meta" /\ Head(body).key = key THEN Head(body)
    ELSE FindMetaEither(Tail(body), key)

RECURSIVE OgFromKeysFirstOfEither(_, _, _)
\* per key, the first tag in the document, declared with property or with name
OgFromKeysFirstOfEither(body, page_url, k) ==
    IF k > Len(OgKeys) THEN None
    ELSE LET tag == FindMetaEither(body, OgKeys[k])
         IN  IF tag # NoTag /\ Truthy(tag.v1) THEN urljoin(page_url, tag.v1)
             ELSE OgFromKeysFirstOfEither(body, page_url, k + 1)

RECURSIVE OgFromKeys(_, _, _)
\* lines 251-256: per key, the tag declared with property, else with name
OgFromKeys(body, page_url, k) ==
    IF k > Len(OgKeys) THEN None
    ELSE LET byProp == FindMeta(body, "property", OgKeys[k])
             tag == IF byProp # NoTag THEN byProp ELSE FindMeta(body, "name", OgKeys[k])
         IN  IF tag # NoTag /\ Truthy(tag.v1) THEN urljoin(page_url, tag.v1)
             ELSE OgFromKeys(body, page_url, k + 1)

\* _fetch_og_image on the answer r to its GET of page_url
fetch_og_image(page_url, r) ==
    IF r.kind = "exc" \/ ~r.parse THEN None
    ELSE IF ~r.ok \/ ~Contains(ContentType(r, <<>>), <<"text/html">>) THEN None
    ELSE OgFromKeys(r.body, page_url, 1)

(***************************************************************************)
(* _head_or_get and the answers of the image hosts.                        *)
(***************************************************************************)
\* "image/" in resp.headers.get("Content-Type", "")
is_image_response(r) == Contains(ContentType(r, <<>>), <<"image/">>)

PngBytes == <<137, 80, 78>>

\* what a HEAD or GET of u may answer; a URL without a scheme makes requests raise
ImageAnswers(u) ==
    IF ~HasScheme(u) THEN { Raised }
    ELSE { Raised,
           Resp(FALSE, PngType, u, PngBytes),
           Resp(TRUE, HtmlType, u, PngBytes),
           Resp(TRUE, PngType, u, PngBytes) }

Fetched(r) == r.kind = "resp" /\ r.ok /\ is_image_response(r)

\* _head_or_get with its GET in a loop of two attempts
head_or_get_retrying(url, stage, r) ==
    IF stage = "head"
    THEN [ok |-> Fetched(r), raised |-> FALSE,
          log |-> <<Request("HEAD", url, Fetched(r))>>,
          next |-> IF Fetched(r) THEN "end" ELSE "get"]
    ELSE [ok |-> Fetched(r), raised |-> FALSE,
          log |-> <<Request("GET", url, Fetched(r))>>,
          next |-> IF ~Fetched(r) /\ stage = "get" THEN "retry" ELSE "end"]

\* one request of _head_or_get(url) and its answer r; stage is the place of
\* the call, "head" (lines 232-235) or "get" (lines 236-239).  The result
\* says whether a response is returned, whether the exception leaves the
\* function, the request made, and what follows: the GET or the end
head_or_get(url, stage, r) ==
    IF stage = "head"
    THEN [ok |-> Fetched(r),
          raised |-> r.kind = "exc" /\ ~InTry("head"),
          log |-> <<Request("HEAD", url, Fetched(r))>>,
          next |-> IF Fetched(r) \/ (r.kind = "exc" /\ ~InTry("head")) THEN "end" ELSE "get"]
    ELSE [ok |-> Fetched(r),
          raised |-> r.kind = "exc" /\ ~InTry("get"),
          log |-> <<Request("GET", url, Fetched(r))>>,
          next |-> "end"]

(***************************************************************************)
(* Inputs and pages of the image calls.                                    *)
(***************************************************************************)
ProductPageUrl == CrestronUrl(<<"Products", "Catalog">>) \o SkuName

ShopPageUrl == Https \o <<"shop.example.com", "/", "p", "/">>

\* a URL whose host opens a bracket that it never closes
BadProductUrl == Https \o <<"[", "bad">>

ProductUrls == { None, ProductPageUrl, ShopPageUrl, BadProductUrl }

WidenAsset(size, file) ==
    Https \o WidenPath \o <<"/", "a1", "/">> \o size \o <<"px@1x", "/">> \o file

W300 == WidenAsset(<<"3", "0", "0">>, <<"uc", ".png">>)

W1000 == WidenAsset(<<"1", "0", "0", "0">>, <<"uc", ".png">>)

WLogo == WidenAsset(<<"3", "0", "0">>, <<"crestron-", "Logo", ".png">>)

\* //embed.widencdn.net/...: the 300px asset without its scheme
W300Relative == SubSeq(W300, 3, Len(W300))

FaviconPath == <<"/", "favicon", ".ico">>

PlainImage == Https \o <<"cdn.example.com", "/", "uc", ".png">>

SocialImage == Https \o <<"cdn.example.com", "/", "social", "-card", ".png">>

\* //[ : a protocol-relative reference with an unclosed bracket
BadImage == <<"/", "/", "[">>

ImageUrls == { None, <<>>, PlainImage, FaviconPath, W300Relative, BadImage }

ProductTags ==
    { Img(W300, None),
      Img(<<"hero", ".png">>, W1000),
      Img(WLogo, None),
      Source(W300Relative \o <<" ", "1x", ",", " ">> \o WLogo \o <<" ", "2x">>),
      Meta("property", "og:image", SocialImage),
      Meta("name", "og:image", PlainImage),
      Meta("property", "og:image", <<>>),
      Meta("name", "twitter:image", <<"uc", ".png">>),
      Meta("property", "og:image:url", W300) }

ProductPages == UNION { [1..n -> ProductTags] : n \in 0..MaxTags }

\* what a GET of product page u may answer
ProductAnswers(u) ==
    { Raised, Unparsable(u), Resp(FALSE, HtmlType, u, <<>>), Resp(TRUE, PngType, u, <<>>) }
    \cup { Resp(TRUE, HtmlType, u, body) : body \in ProductPages }

(***************************************************************************)
(* resolve_image_url, one action per step.                                 *)
(***************************************************************************)
ImgGoto(p, f) ==
    /\ frame' = [frame EXCEPT ![p] = f]
    /\ UNCHANGED <<URL_CACHE, firstRet, skuVars>>

ImgReturn(p, f, v, via) ==
    ImgGoto(p, [f EXCEPT !.pc = "done", !.via = via, !.ret = Returned(v)])

ImgRaise(p, f) ==
    ImgGoto(p, [f EXCEPT !.pc = "done", !.via = "raise", !.ret = Raise])

\* lines 456-462: the call and the normalisation of the proposed image
ResolveImageUrlEnter(p) ==
    /\ Callable(p)
    /\ \E image_url \in ImageUrls, product_url \in ProductUrls :
         LET relative == StartsWith(image_url, <<"/", "/">>) \/ StartsWith(image_url, <<"/">>)
             base == IF product_url[Len(product_url)] = "/" THEN product_url
                     ELSE product_url \o <<"/">>
             joined == Truthy(image_url) /\ Truthy(product_url) /\ relative
             test_url == IF joined THEN urljoin(base, image_url) ELSE image_url
             f == [IdleFrame EXCEPT !.op = "resolve_image_url",
                                    !.image_url = image_url,
                                    !.product_url = product_url]
         IN  IF joined /\ urljoin_raises(base, image_url) /\ ~InTry("img_join")
             THEN ImgRaise(p, f)
             ELSE ImgGoto(p, [f EXCEPT !.test_url = IF Truthy(image_url) THEN test_url ELSE None,
                                       !.pc = IF Truthy(image_url) THEN "img_proposed"
                                              ELSE "img_page"])

\* lines 463-467: one request for the proposed image (the HEAD, then the GET
\* when the HEAD gave no image); after the last one the logo test
ImgProposed(p) ==
    /\ frame[p].pc = "img_proposed"
    /\ \E r \in ImageAnswers(frame[p].test_url) :
         LET got == head_or_get(frame[p].test_url, frame[p].stage, r)
             f == [frame[p] EXCEPT !.log = @ \o got.log, !.stage = "head"]
         IN  IF got.next # "end" THEN ImgGoto(p, [f EXCEPT !.stage = got.next])
             ELSE IF got.raised /\ ~InTry("img_proposed") THEN ImgRaise(p, f)
             ELSE IF ~got.raised /\ got.ok /\ ~looks_like_logo(f.test_url)
                  THEN ImgReturn(p, f, f.test_url, "proposed")
             ELSE ImgGoto(p, [f EXCEPT !.pc = "img_page"])

\* lines 469-471: is there a product page, and is it on the catalog domain
ImgPage(p) ==
    /\ frame[p].pc = "img_page"
    /\ IF ~Truthy(frame[p].product_url) THEN ImgReturn(p, frame[p], None, "none")
       ELSE IF urlsplit_raises(frame[p].product_url) /\ ~InTry("img_host")
            THEN ImgRaise(p, frame[p])
       ELSE IF Contains(Lower(netloc(frame[p].product_url)), <<"crestron.com">>)
            THEN ImgGoto(p, [frame[p] EXCEPT !.pc = "img_scrape"])
       ELSE ImgGoto(p, [frame[p] EXCEPT !.pc = "img_og"])

\* lines 273-300, 308-312: the page is fetched and its candidates gathered
ImgScrape(p) ==
    /\ frame[p].pc = "img_scrape"
    /\ \E r \in ProductAnswers(frame[p].product_url) :
         LET failed == r.kind = "exc" \/ ~r.parse
             usable == ~failed /\ r.ok /\ Contains(ContentType(r, <<>>), <<"text/html">>)
             f == [frame[p] EXCEPT !.log = Append(@, Request("GET", frame[p].product_url, usable))]
             cands == IF usable THEN cdn_candidates(r.body, f.product_url) ELSE <<>>
         IN  IF failed /\ ~InTry("scrape") THEN ImgRaise(p, f)
             ELSE IF ~usable THEN ImgGoto(p, [f EXCEPT !.pc = "img_og"])
             ELSE IF cands = <<>> THEN ImgGoto(p, [f EXCEPT !.pc = "img_scrape_og"])
             ELSE ImgGoto(p, [f EXCEPT !.pc = "img_prefer", !.i = 1,
                                       !.uniq = Dedup(cands, {})])

\* lines 303-306: no candidate, so the preview image of the page is one
ImgScrapeOg(p) ==
    /\ frame[p].pc = "img_scrape_og"
    /\ \E r \in ProductAnswers(frame[p].product_url) :
         LET og == fetch_og_image(frame[p].product_url, r)
             f == [frame[p] EXCEPT !.log = Append(@, Request("GET", frame[p].product_url, Truthy(og)))]
         IN  IF (r.kind = "exc" \/ ~r.parse) /\ ~InTry("og") /\ ~InTry("scrape")
             THEN ImgRaise(p, f)
             ELSE IF (r.kind = "exc" \/ ~r.parse) /\ ~InTry("og")
                  THEN ImgGoto(p, [f EXCEPT !.pc = "img_og"])
             ELSE IF Truthy(og) /\ ~looks_like_logo(og)
                  THEN ImgGoto(p, [f EXCEPT !.pc = "img_prefer", !.i = 1, !.uniq = <<og>>])
             ELSE ImgGoto(p, [f EXCEPT !.pc = "img_og"])

\* lines 472-474: best is returned unless it looks like a logo
ImgBest(p, f, best) ==
    IF Truthy(best) /\ ~looks_like_logo(best) THEN ImgReturn(p, f, best, "scrape")
    ELSE ImgGoto(p, [f EXCEPT !.pc = "img_og", !.i = 0])

\* lines 315-319: one step of the loop that prefers the large CDN asset: a
\* candidate passed over, or one request of its _head_or_get
ImgPrefer(p) ==
    /\ frame[p].pc = "img_prefer"
    /\ LET f0 == frame[p]
       IN  IF f0.i > Len(f0.uniq) THEN ImgGoto(p, [f0 EXCEPT !.pc = "img_any", !.i = 1])
           ELSE LET u == f0.uniq[f0.i]
                    u2 == upgrade_size(u)
                IN  IF ~(IsWiden(u) /\ ~looks_like_logo(u))
                    THEN ImgGoto(p, [f0 EXCEPT !.i = @ + 1])
                    ELSE \E r \in ImageAnswers(u2) :
                           LET got == head_or_get(u2, f0.stage, r)
                               f == [f0 EXCEPT !.log = @ \o got.log, !.stage = "head"]
                           IN  IF got.next # "end" THEN ImgGoto(p, [f EXCEPT !.stage = got.next])
                               ELSE IF got.raised /\ ~InTry("scrape") THEN ImgRaise(p, f)
                               ELSE IF got.raised THEN ImgBest(p, f, None)
                               ELSE IF got.ok THEN ImgBest(p, f, u2)
                               ELSE ImgGoto(p, [f EXCEPT !.i = @ + 1])

\* lines 322-324: one step of the loop over any candidate that is no logo: a
\* candidate passed over, or one request of its _head_or_get
ImgAny(p) ==
    /\ frame[p].pc = "img_any"
    /\ LET f0 == frame[p]
       IN  IF f0.i > Len(f0.uniq) THEN ImgBest(p, f0, None)
           ELSE LET u == f0.uniq[f0.i]
                IN  IF looks_like_logo(u) THEN ImgGoto(p, [f0 EXCEPT !.i = @ + 1])
                    ELSE \E r \in ImageAnswers(u) :
                           LET got == head_or_get(u, f0.stage, r)
                               f == [f0 EXCEPT !.log = @ \o got.log, !.stage = "head"]
                           IN  IF got.next # "end" THEN ImgGoto(p, [f EXCEPT !.stage = got.next])
                               ELSE IF got.raised /\ ~InTry("scrape") THEN ImgRaise(p, f)
                               ELSE IF got.raised THEN ImgBest(p, f, None)
                               ELSE IF got.ok THEN ImgBest(p, f, u)
                               ELSE ImgGoto(p, [f EXCEPT !.i = @ + 1])

\* lines 475-476: the preview image of the product page
ImgOg(p) ==
    /\ frame[p].pc = "img_og"
    /\ \E r \in ProductAnswers(frame[p].product_url) :
         LET og == fetch_og_image(frame[p].product_url, r)
             f == [frame[p] EXCEPT !.log = Append(@, Request("GET", frame[p].product_url, Truthy(og)))]
         IN  IF (r.kind = "exc" \/ ~r.parse) /\ ~InTry("og") THEN ImgRaise(p, f)
             ELSE IF Truthy(og) /\ ~looks_like_logo(og)
                  THEN ImgGoto(p, [f EXCEPT !.pc = "img_og_check", !.og = og])
             ELSE ImgReturn(p, f, None, "none")

\* lines 477-482: one request for the preview image
ImgOgCheck(p) ==
    /\ frame[p].pc = "img_og_check"
    /\ \E r \in ImageAnswers(frame[p].og) :
         LET got == head_or_get(frame[p].og, frame[p].stage, r)
             f == [frame[p] EXCEPT !.log = @ \o got.log, !.stage = "head"]
         IN  IF got.next # "end" THEN ImgGoto(p, [f EXCEPT !.stage = got.next])
             ELSE IF got.raised /\ ~InTry("img_og_check") THEN ImgRaise(p, f)
             ELSE IF ~got.raised /\ got.ok THEN ImgReturn(p, f, f.og, "og")
             ELSE ImgReturn(p, f, None, "none")

(***************************************************************************)
(* embed_image_data_uri.                                                   *)
(***************************************************************************)
B64Chars ==
    << "A", "B", "C", "D", "E", "F", "G", "H", "I", "J", "K", "L", "M", "N", "O", "P",
       "Q", "R", "S", "T", "U", "V", "W", "X", "Y", "Z", "a", "b", "c", "d", "e", "f",
       "g", "h", "i", "j", "k", "l", "m", "n", "o", "p", "q", "r", "s", "t", "u", "v",
       "w", "x", "y", "z", "0", "1", "2", "3", "4", "5", "6", "7", "8", "9", "+", "/" >>

RECURSIVE b64encode(_)
\* base64.b64encode(content).decode("ascii"), content a sequence of bytes
b64encode(content) ==
    IF content = <<>> THEN <<>>
    ELSE LET n == Len(content)
             v == content[1] * 65536
                    + (IF n >= 2 THEN content[2] ELSE 0) * 256
                    + (IF n >= 3 THEN content[3] ELSE 0)
         IN  << B64Chars[(v \div 262144) + 1],
                B64Chars[((v \div 4096) % 64) + 1],
                IF n >= 2 THEN B64Chars[((v \div 64) % 64) + 1] ELSE "=",
                IF n >= 3 THEN B64Chars[(v % 64) + 1] ELSE "=" >>
             \o b64encode(SubSeq(content, 4, n))

\* f"data:{content_type};base64,{b64}"
to_data_uri(content, content_type) ==
    <<"data:">> \o content_type \o <<";base64,">> \o b64encode(content)

PLACEHOLDER_IMAGE ==
    Https \o <<"upload.wikimedia.org", "/", "wikipedia", "/", "commons", "/", "3", "/",
               "3f", "/", "Placeholder_view_vector.svg">>

SvgType == <<"image/", "svg+xml">>

JpegType == <<"image/", "jpeg">>

SvgBytes == <<60, 115, 118, 103>>

HtmlBytes == <<60, 104>>

EmbedUrls == { None, <<>>, PlainImage, FaviconPath }

\* what the GET of the image u may answer
EmbedAnswers(u) ==
    IF ~HasScheme(u) THEN { Raised }
    ELSE { Raised,
           Resp(FALSE, PngType, u, PngBytes),
           Resp(TRUE, PngType, u, <<>>),
           Resp(TRUE, PngType, u, PngBytes),
           Resp(TRUE, HtmlType, u, HtmlBytes),
           Resp(TRUE, OddType, u, PngBytes),
           Resp(TRUE, None, u, PngBytes) }

\* what the GET of the placeholder may answer
PlaceholderAnswers ==
    { Raised,
      Resp(FALSE, SvgType, PLACEHOLDER_IMAGE, SvgBytes),
      Resp(TRUE, SvgType, PLACEHOLDER_IMAGE, <<>>),
      Resp(TRUE, SvgType, PLACEHOLDER_IMAGE, SvgBytes),
      Resp(TRUE, None, PLACEHOLDER_IMAGE, SvgBytes),
      Resp(TRUE, HtmlType, PLACEHOLDER_IMAGE, HtmlBytes) }

\* r.ok and r.content and _is_image_response(r)
embed_accepts(r) == r.ok /\ r.body # <<>> /\ is_image_response(r)

\* lines 484-490: the call
EmbedEnter(p) ==
    /\ Callable(p)
    /\ \E url \in EmbedUrls :
         ImgGoto(p, [IdleFrame EXCEPT !.op = "embed_image_data_uri", !.url = url,
                                      !.pc = IF Truthy(url) THEN "embed_get"
                                             ELSE "embed_placeholder"])

\* lines 491-497: the image is downloaded and encoded
EmbedGet(p) ==
    /\ frame[p].pc = "embed_get"
    /\ \E r \in EmbedAnswers(frame[p].url) :
         LET ok == r.kind = "resp" /\ embed_accepts(r)
             f == [frame[p] EXCEPT !.resp = r,
                                   !.log = Append(@, Request("GET", frame[p].url, ok))]
         IN  IF r.kind = "exc" /\ ~InTry("embed") THEN ImgRaise(p, f)
             ELSE IF ok THEN ImgReturn(p, f, to_data_uri(r.body, ContentType(r, JpegType)), "image")
             ELSE ImgGoto(p, [f EXCEPT !.pc = "embed_placeholder"])

\* lines 499-506: the placeholder is downloaded and encoded, or its URL returned
EmbedPlaceholder(p) ==
    /\ frame[p].pc = "embed_placeholder"
    /\ \E r \in PlaceholderAnswers :
         LET ok == r.kind = "resp" /\ r.ok /\ r.body # <<>>
             f == [frame[p] EXCEPT !.presp = r,
                                   !.log = Append(@, Request("GET", PLACEHOLDER_IMAGE, ok))]
         IN  IF r.kind = "exc" /\ ~InTry("placeholder") THEN ImgRaise(p, f)
             ELSE IF ok THEN ImgReturn(p, f, to_data_uri(r.body, ContentType(r, SvgType)),
                                       "placeholder")
             ELSE ImgReturn(p, f, PLACEHOLDER_IMAGE, "placeholder_url")

(***************************************************************************)
(* _head_or_get called on its own.                                         *)
(***************************************************************************)
FetchUrls ==
    { PlainImage, SocialImage, W300, W1000, WLogo, FaviconPath,
      ProductPageUrl, ShopPageUrl, ProposedPage, PLACEHOLDER_IMAGE }

\* the response object that _head_or_get hands back, as its callers see it
SomeResponse == <<"<Response>">>

\* lines 228-240: one request of a call, the HEAD with which the call starts
\* or the GET made when the HEAD gave no image
HeadOrGet(p) ==
    \E url \in FetchUrls :
      /\ Callable(p) \/ (frame[p].pc = "fetch" /\ frame[p].url = url)
      /\ \E r \in ImageAnswers(url) :
           LET f0 == IF Callable(p)
                     THEN [IdleFrame EXCEPT !.op = "_head_or_get", !.url = url, !.pc = "fetch"]
                     ELSE frame[p]
               got == head_or_get(url, f0.stage, r)
               f == [f0 EXCEPT !.hresp = IF f0.stage = "head" THEN r ELSE @,
                               !.resp = IF f0.stage = "head" THEN @ ELSE r,
                               !.log = @ \o got.log, !.stage = "head"]
           IN  IF got.next # "end" THEN ImgGoto(p, [f EXCEPT !.stage = got.next])
               ELSE IF got.raised THEN ImgRaise(p, f)
               ELSE ImgReturn(p, f, IF got.ok THEN SomeResponse ELSE None, "fetch")

Init ==
    /\ URL_CACHE = <<>>
    /\ frame = [p \in Threads |-> IdleFrame]
    /\ firstRet = <<>>
    /\ skuName = <<>>
    /\ skuOut = <<"unused">>

NextFetch == HeadOrGet(MainThread)

\* lines 242-259: _fetch_og_image called on its own
FetchOgImage(p) ==
    /\ Callable(p)
    /\ \E page_url \in ProductUrls \ {None, BadProductUrl} :
         \E r \in ProductAnswers(page_url) :
           LET og == fetch_og_image(page_url, r)
               f == [IdleFrame EXCEPT !.op = "_fetch_og_image", !.product_url = page_url,
                                      !.resp = r,
                                      !.log = <<Request("GET", page_url, Truthy(og))>>]
           IN  IF (r.kind = "exc" \/ ~r.parse) /\ ~InTry("og") THEN ImgRaise(p, f)
               ELSE ImgReturn(p, f, og, "og")

NextOg == FetchOgImage(MainThread)

\* lines 273-300, 308-312: _extract_crestron_best_image up to its list uniq:
\* the page is fetched and the candidates of its img and source tags gathered
\* and deduplicated; a page that gives none goes on to lines 303-306
GatherCandidates(p) ==
    /\ Callable(p)
    /\ \E page_url \in ProductUrls \ {None, BadProductUrl} :
         \E r \in ProductAnswers(page_url) :
           LET usable == /\ r.kind = "resp" /\ r.parse /\ r.ok
                         /\ Contains(ContentType(r, <<>>), <<"text/html">>)
               cands == IF usable THEN cdn_candidates(r.body, page_url) ELSE <<>>
           IN  ImgGoto(p, [IdleFrame EXCEPT !.op = "_extract_crestron_best_image",
                                            !.product_url = page_url,
                                            !.resp = r,
                                            !.log = <<Request("GET", page_url, usable)>>,
                                            !.uniq = Dedup(cands, {}),
                                            !.pc = IF usable /\ cands = <<>>
                                                   THEN "gather_og" ELSE "done"])

\* lines 303-306, 308-312: no candidate, so _fetch_og_image requests the page
\* again and its preview image is the one candidate unless it looks like a logo
GatherOg(p) ==
    /\ frame[p].pc = "gather_og"
    /\ \E r \in ProductAnswers(frame[p].product_url) :
         LET og == fetch_og_image(frame[p].product_url, r)
             cands == IF Truthy(og) /\ ~looks_like_logo(og) THEN <<og>> ELSE <<>>
         IN  ImgGoto(p, [frame[p] EXCEPT
                           !.log = Append(@, Request("GET", frame[p].product_url, Truthy(og))),
                           !.og = og,
                           !.uniq = Dedup(cands, {}),
                           !.pc = "done"])

NextGather == GatherCandidates(MainThread) \/ GatherOg(MainThread)

SpecGather == Init /\ [][NextGather]_vars

SpecOg == Init /\ [][NextOg]_vars

SpecFetch == Init /\ [][NextFetch]_vars

\* calls are made one at a time, on one thread
Next ==
    \/ ResolveProductUrlEnter(MainThread)
    \/ UrlProposed(MainThread)
    \/ UrlSku(MainThread)
    \/ UrlProbe(MainThread)
    \/ UrlQuery(MainThread)
    \/ UrlDdg(MainThread)
    \/ UrlFallback(MainThread)

Spec == Init /\ [][Next]_vars

\* a step of the call that thread p is running
UrlStep(p) ==
    \/ UrlProposed(p)
    \/ UrlSku(p)
    \/ UrlProbe(p)
    \/ UrlQuery(p)
    \/ UrlDdg(p)
    \/ UrlFallback(p)

OtherThread == CHOOSE p \in Threads : p # MainThread

\* two calls one after the other, on names and proposed URLs that hold "||"
NextKey ==
    \/ frame[MainThread].pc = "idle" /\ ResolveProductUrlCall(MainThread, KeyNames, KeyProposedUrls)
    \/ /\ frame[MainThread].pc = "done" /\ frame[OtherThread].pc = "idle"
       /\ ResolveProductUrlCall(OtherThread, KeyNames, KeyProposedUrls)
    \/ \E p \in Threads : UrlStep(p)

SpecKey == Init /\ [][NextKey]_vars

\* the calls that run at the same time
ConcNames == { SkuName }

ConcProposedUrls == { None, ProposedPage }

\* each thread makes one call; the steps of the two calls interleave freely,
\* there is no lock around URL_CACHE (line 330, lines 421-422 and the writes)
NextConc ==
    \E p \in Threads :
        \/ frame[p].pc = "idle" /\ ResolveProductUrlCall(p, ConcNames, ConcProposedUrls)
        \/ UrlStep(p)

SpecConc == Init /\ [][NextConc]_vars

\* a fresh process makes one call of one of the three entry points
FirstCall == frame[MainThread].pc = "idle"

NextCall ==
    \/ FirstCall /\ ResolveProductUrlEnter(MainThread)
    \/ FirstCall /\ ResolveImageUrlEnter(MainThread)
    \/ FirstCall /\ EmbedEnter(MainThread)
    \/ UrlProposed(MainThread)
    \/ UrlSku(MainThread)
    \/ UrlProbe(MainThread)
    \/ UrlQuery(MainThread)
    \/ UrlDdg(MainThread)
    \/ UrlFallback(MainThread)
    \/ ImgProposed(MainThread)
    \/ ImgPage(MainThread)
    \/ ImgScrape(MainThread)
    \/ ImgScrapeOg(MainThread)
    \/ ImgPrefer(MainThread)
    \/ ImgAny(MainThread)
    \/ ImgOg(MainThread)
    \/ ImgOgCheck(MainThread)
    \/ EmbedGet(MainThread)
    \/ EmbedPlaceholder(MainThread)

\* the thread keeps running until its call returns
SpecCall == Init /\ [][NextCall]_vars /\ WF_vars(NextCall)

(***************************************************************************)
(* The size rewrite of line 317 on every URL of up to MaxUrlLen symbols,   *)
(* applied once and then again to its own result.                          *)
(***************************************************************************)
SizeAlphabet == {"/", "1", "0", "px@1x"}

SizeUrls ==
    { W300, W1000, WLogo, PlainImage }
        \cup UNION { [1..n -> SizeAlphabet] : n \in 0..MaxUrlLen }

\* one rewrite is followed, the program being fresh
UpgradeEnter(p) ==
    /\ frame[p].pc = "idle"
    /\ \E u \in SizeUrls :
         ImgGoto(p, [IdleFrame EXCEPT !.op = "upgrade_size", !.url = u, !.pc = "size_once"])

\* u2 = re.sub(r"/(\d+)px@1x/", "/1000px@1x/", u)
UpgradeOnce(p) ==
    /\ frame[p].pc = "size_once"
    /\ ImgGoto(p, [frame[p] EXCEPT !.test_url = upgrade_size(frame[p].url),
                                    !.pc = "size_twice"])

\* the same rewrite on u2
UpgradeTwice(p) ==
    /\ frame[p].pc = "size_twice"
    /\ ImgReturn(p, frame[p], upgrade_size(frame[p].test_url), "rewrite")

NextSize ==
    \/ UpgradeEnter(MainThread)
    \/ UpgradeOnce(MainThread)
    \/ UpgradeTwice(MainThread)

SpecSize == Init /\ [][NextSize]_vars

(***************************************************************************)
(* extract_sku on every name of up to MaxNameLen symbols, and on the names  *)
(* of up to MaxSkuWords words that hold several matches of different       *)
(* lengths.                                                                *)
(***************************************************************************)
SkuAlphabet == {"a", "1", "-", " ", "_"}

\* words of a product name: SKUs of 3, 4, 4 and 6 symbols, and a word that
\* starts with a digit and so holds no match
SkuWords ==
    { <<"a", "-", "1">>,
      <<"a", "-", "1", "1">>,
      <<"a", "a", "-", "1">>,
      <<"a", "a", "-", "1", "-", "a">>,
      <<"1", "a", "-", "1">> }

RECURSIVE JoinWords(_)
\* the words with one space between them
JoinWords(ws) ==
    IF Len(ws) = 1 THEN ws[1]
    ELSE ws[1] \o <<" ">> \o JoinWords(Tail(ws))

SkuPhrases ==
    { JoinWords(ws) : ws \in UNION { [1..n -> SkuWords] : n \in 1..MaxSkuWords } }

SkuInit ==
    /\ URL_CACHE = <<>>
    /\ frame = [p \in Threads |-> IdleFrame]
    /\ firstRet = <<>>
    /\ \/ \E n \in 0..MaxNameLen : skuName \in [1..n -> SkuAlphabet]
       \/ skuName \in SkuPhrases
    /\ skuOut = <<"pending">>

ExtractSku ==
    /\ skuOut = <<"pending">>
    /\ skuOut' = <<"returned", extract_sku(skuName)>>
    /\ UNCHANGED <<skuName, urlVars>>

SkuNext == ExtractSku

SpecSku == SkuInit /\ [][SkuNext]_vars

(***************************************************************************)
(* C10.  What a token of the SKU pattern is, stated without the matcher:   *)
(* a head of 1..8 upper-case letters, then 1..8 groups of a hyphen and     *)
(* 1..10 upper-case letters or digits, between two word boundaries.        *)
(***************************************************************************)
DashPos(t) == {k \in 1..Len(t) : t[k] = "-"}

GroupLenAfter(t, d) == RunLen(t, d + 1, UpperLetters \cup Digits)

IsToken(t) ==
    LET D == DashPos(t)
    IN  /\ D # {}
        /\ Cardinality(D) <= MaxGroups
        /\ \A k \in 1..Len(t) : k \notin D => IsAlnum(t[k])
        /\ \E first \in D :
              /\ \A d \in D : first <= d
              /\ first - 1 \in 1..MaxHead
              /\ \A k \in 1..(first - 1) : t[k] \in UpperLetters
        /\ \A d \in D : GroupLenAfter(t, d) \in 1..MaxGroupLen

HasToken(s) ==
    \E i \in 1..Len(s) : \E e \in i..Len(s) :
        /\ IsToken(SubSeq(s, i, e))
        /\ Boundary(s, i)
        /\ Boundary(s, e + 1)

SkuMatches == SKU_REGEX_findall(Upper(skuName))

\* C10: extract_sku returns none exactly when the upper-cased name holds no
\* token of the SKU pattern; with one match it returns that match; with
\* several it returns a longest match, the first of them in match order.
C10_ExtractSkuLongestFirst ==
    skuOut[1] = "returned" =>
        LET ms == SkuMatches
            r  == skuOut[2]
        IN  /\ (r = None) = ~HasToken(Upper(skuName))
            /\ (ms = <<>>) = (r = None)
            /\ Len(ms) = 1 => r = ms[1]
            /\ Len(ms) >= 1 =>
                 \E i \in 1..Len(ms) :
                    /\ r = ms[i]
                    /\ \A j \in 1..Len(ms) : Len(ms[j]) <= Len(r)
                    /\ \A j \in 1..(i - 1) : Len(ms[j]) < Len(r)

\* three matches, the first shorter than the other two, which are different
\* and of the same length: the second match is returned, the earlier of the
\* two longest
C10_Witness ==
    /\ skuOut[1] = "returned"
    /\ Len(SkuMatches) = 3
    /\ Len(SkuMatches[1]) < Len(SkuMatches[2])
    /\ Len(SkuMatches[2]) = Len(SkuMatches[3])
    /\ SkuMatches[2] # SkuMatches[3]
    /\ skuOut[2] = SkuMatches[2]
    /\ skuOut[2] # SkuMatches[1]

(***************************************************************************)
(* Claims about resolve_product_url.                                       *)
(***************************************************************************)
UrlDone(p) == frame[p].op = "resolve_product_url" /\ frame[p].pc = "done"

AllFailed(log) == \A k \in 1..Len(log) : ~log[k].hit

IsDdgRequest(q) == StartsWith(q.url, DdgPrefix)

\* C1: resolve_product_url returns a non-empty URL, never none, for every
\* input and every outcome of its requests; when every request fails (and
\* the value is not a cached one) it is the search-page URL of the catalog.
C1_NonEmptyUrl ==
    \A p \in Threads :
        UrlDone(p) =>
            /\ frame[p].ret.kind = "return"
            /\ frame[p].ret.val # None
            /\ frame[p].ret.val # <<>>
            /\ (frame[p].via # "cache" /\ AllFailed(frame[p].log)) =>
                  /\ StartsWith(frame[p].ret.val, SearchPrefix)
                  /\ Len(frame[p].ret.val) > Len(SearchPrefix)

\* the proposed URL, the ten probes and both result pages failed
C1_Witness ==
    \E p \in Threads :
        /\ UrlDone(p)
        /\ frame[p].name = SkuName
        /\ frame[p].proposed = ProposedPage
        /\ Len(frame[p].log) = 1 + NumProbes + 2
        /\ AllFailed(frame[p].log)
        /\ StartsWith(frame[p].ret.val, SearchPrefix)

\* C2: a call made after a call on the same key has completed makes no
\* request and returns the value that first call returned.
C2_CacheConsistent ==
    \A p \in Threads :
        (UrlDone(p) /\ frame[p].after) =>
            /\ frame[p].log = <<>>
            /\ frame[p].ret = Returned(firstRet[frame[p].key])

\* a second call on the key of a call that a probe had resolved
C2_Witness ==
    \E p \in Threads :
        /\ UrlDone(p)
        /\ frame[p].after
        /\ frame[p].name = SkuName
        /\ frame[p].log = <<>>
        /\ Contains(frame[p].ret.val, SkuName)
        /\ ~StartsWith(frame[p].ret.val, SearchPrefix)

\* the order of the strategies as the design gives it: the proposed URL,
\* the templates of the current taxonomy, those of the legacy taxonomy, the
\* discontinued path, then the result pages of the search engine
IsCurrentTaxonomy(b) == Contains(b, <<"/", "Workspace-Solutions", "/">>)

IsLegacyTaxonomy(b) ==
    Contains(b, <<"/", "Catalog", "/">>) /\ ~Contains(b, <<"Discontinued">>)

PlanProposed(proposed) == IF Truthy(proposed) THEN <<proposed>> ELSE <<>>

PlanProbes(sku) ==
    IF Truthy(sku)
    THEN [k \in 1..Len(bases) |-> bases[k] \o sku] \o <<disc(sku)>>
    ELSE <<>>

PlanSearch(sku, name) ==
    LET q == IF Truthy(sku) THEN sku ELSE name
    IN  IF Truthy(q) THEN ddg_urls(q) ELSE <<>>

Plan(name, proposed) ==
    PlanProposed(proposed) \o PlanProbes(extract_sku(name))
        \o PlanSearch(extract_sku(name), name)

LogUrls(log) == [k \in 1..Len(log) |-> log[k].url]

IsPrefix(s, t) == Len(s) <= Len(t) /\ SubSeq(t, 1, Len(s)) = s

\* C3: on a cache miss the requests follow the plan in order, each one made
\* only after all earlier ones failed, and the call returns the value of the
\* first that succeeds, or the search-page URL after the whole plan failed.
C3_StrategyOrder ==
    /\ \A a, b \in 1..Len(bases) :
          (IsCurrentTaxonomy(bases[a]) /\ IsLegacyTaxonomy(bases[b])) => a < b
    /\ \A a \in 1..Len(bases) : IsCurrentTaxonomy(bases[a]) \/ IsLegacyTaxonomy(bases[a])
    /\ \A p \in Threads :
          frame[p].op = "resolve_product_url" =>
            LET log == frame[p].log
                plan == Plan(frame[p].name, frame[p].proposed)
            IN  /\ IsPrefix(LogUrls(log), plan)
                /\ \A k \in 1..(Len(log) - 1) : ~log[k].hit
                /\ (log # <<>> /\ log[Len(log)].hit) =>
                      /\ frame[p].pc = "done"
                      /\ frame[p].via \in {"proposed", "probe", "ddg"}
                /\ (frame[p].pc = "done" /\ frame[p].via \in {"proposed", "probe", "ddg"}) =>
                      log # <<>> /\ log[Len(log)].hit
                /\ (frame[p].pc = "done" /\ frame[p].via = "fallback") =>
                      AllFailed(log) /\ LogUrls(log) = plan

\* name "UC-BX30-Z", no proposed URL: all ten probes were made, in order,
\* before the first result page was asked for, and that page resolved it
C3_Witness ==
    \E p \in Threads :
        /\ UrlDone(p)
        /\ frame[p].name = SkuName
        /\ frame[p].proposed = None
        /\ frame[p].via = "ddg"
        /\ Len(frame[p].log) = NumProbes + 1
        /\ IsDdgRequest(frame[p].log[NumProbes + 1])
        /\ \A k \in 1..NumProbes : ~IsDdgRequest(frame[p].log[k])

\* C4: with a SKU, the terminal fallback is returned only after the search
\* page of the catalog itself (one of its two variants) has been requested.
C4_CatalogSearchBeforeFallback ==
    \A p \in Threads :
        (UrlDone(p) /\ frame[p].via = "fallback" /\ Truthy(frame[p].sku)) =>
            \E k \in 1..Len(frame[p].log) : \E v \in 1..2 :
                frame[p].log[k].url = search_crestron_queries(frame[p].sku)[v]

\* C5: with a SKU, the anchor the search-engine step returns holds the
\* catalog domain, a catalog path segment and the SKU, whatever the case.
C5_DdgAnchorHasSku ==
    \A p \in Threads :
        (UrlDone(p) /\ frame[p].via = "ddg" /\ Truthy(frame[p].sku)) =>
            /\ Contains(frame[p].ret.val, <<"crestron.com">>)
            /\ Contains(frame[p].ret.val, <<"/", "Products", "/">>)
            /\ Contains(Upper(frame[p].ret.val), Upper(frame[p].sku))

IsBlank(name) == \A k \in 1..Len(name) : name[k] = " "

\* C6: an empty or all-whitespace name whose proposed URL is not accepted
\* makes no search request and gets the search page for the default query.
C6_BlankNameStraightToFallback ==
    \A p \in Threads :
        (UrlDone(p) /\ IsBlank(frame[p].name) /\ frame[p].via \notin {"cache", "proposed"}) =>
            /\ \A k \in 1..Len(frame[p].log) : ~IsDdgRequest(frame[p].log[k])
            /\ frame[p].ret.val = SearchPrefix \o <<"C", "r", "e", "s", "t", "r", "o", "n">>

(***************************************************************************)
(* Claims about resolve_image_url and embed_image_data_uri.                *)
(***************************************************************************)
ImgDone(p) == frame[p].op = "resolve_image_url" /\ frame[p].pc = "done"

EmbedDone(p) == frame[p].op = "embed_image_data_uri" /\ frame[p].pc = "done"

RejectionKeywords == {"logo", "favicon", "ogimage", "social", "icon"}

HasRejectionKeyword(url) ==
    \E w \in RejectionKeywords : Contains(Lower(url), <<w>>)

\* C7: resolve_image_url returns none or a URL that holds no rejection
\* keyword in any letter case, whichever step produced it.
C7_NoLogoReturned ==
    \A p \in Threads :
        (ImgDone(p) /\ frame[p].ret.kind = "return" /\ frame[p].ret.val # None) =>
            ~HasRejectionKeyword(frame[p].ret.val)

\* the only candidate of the CDN is a logo, it is never fetched, and the
\* result is none
C7_Witness ==
    \E p \in Threads :
        /\ ImgDone(p)
        /\ frame[p].uniq = <<WLogo>>
        /\ frame[p].ret = Returned(None)
        /\ \A k \in 1..Len(frame[p].log) : ~HasRejectionKeyword(frame[p].log[k].url)

IsDataUri(v) == StartsWith(v, <<"data:">>) /\ Contains(v, <<";base64,">>)

PlaceholderResult(v, presp) ==
    \/ v = PLACEHOLDER_IMAGE
    \/ /\ presp.kind = "resp" /\ presp.ok /\ presp.body # <<>>
       /\ IsDataUri(v)
       /\ v = <<"data:">> \o ContentType(presp, SvgType) \o <<";base64,">>
                 \o b64encode(presp.body)

\* C8: embed_image_data_uri never raises and never returns the empty string;
\* a fetch that succeeds with an image response gives a data URI that starts
\* with data:image/, and an absent, unreachable or non-image URL gives the
\* data URI of the placeholder or the URL of the placeholder.
C8_ImageResponseGivesImageUri ==
    \A p \in Threads :
        EmbedDone(p) =>
            /\ frame[p].ret.kind = "return"
            /\ frame[p].ret.val # <<>>
            /\ (frame[p].resp.kind = "resp" /\ frame[p].resp.ok
                  /\ is_image_response(frame[p].resp)) =>
                  StartsWith(frame[p].ret.val, <<"data:", "image/">>)
            /\ ~(frame[p].resp.kind = "resp" /\ frame[p].resp.ok
                  /\ is_image_response(frame[p].resp)) =>
                  PlaceholderResult(frame[p].ret.val, frame[p].presp)

\* What embed_image_data_uri does: it never raises and never returns the
\* empty string.  A fetch that succeeds with a non-empty body and a
\* Content-Type that holds "image/" anywhere gives the data URI of that body
\* under that Content-Type.  In every other case (no URL, failed fetch, no
\* "image/" in the Content-Type, empty body) the result is the data URI of
\* the placeholder or, when its fetch fails too, the URL of the placeholder.
EmbedResult ==
    \A p \in Threads :
        EmbedDone(p) =>
            LET r == frame[p].resp
                v == frame[p].ret.val
                image == /\ r.kind = "resp" /\ r.ok /\ r.body # <<>>
                         /\ r.ctype # None /\ Contains(r.ctype, <<"image/">>)
            IN  /\ frame[p].ret.kind = "return"
                /\ v # <<>> /\ v # None
                /\ image => v = <<"data:">> \o r.ctype \o <<";base64,">> \o b64encode(r.body)
                /\ ~image => PlaceholderResult(v, frame[p].presp)

\* C9: no exception reaches the caller of resolve_product_url,
\* resolve_image_url or embed_image_data_uri, and the call returns.
C9_NoExceptionAndReturns ==
    /\ [](\A p \in Threads : frame[p].ret.kind # "raise")
    /\ <>(frame[MainThread].pc = "done" /\ frame[MainThread].ret.kind = "return")

(***************************************************************************)
(* Claims about _head_or_get.                                              *)
(***************************************************************************)
FetchDone(p) == frame[p].op = "_head_or_get" /\ frame[p].pc = "done"

\* a request that did not give a 2xx image response
FailedAnswer(r) ==
    r.kind = "exc" \/ ~r.ok \/ r.ctype = None \/ ~Contains(r.ctype, <<"image/">>)

\* C11: within one fetch call, once a request fails the call yields none
\* without issuing any further request for that URL.
C11_NoRequestAfterFailure ==
    \A p \in Threads :
        FetchDone(p) =>
            \A k \in 1..Len(frame[p].log) :
                ~frame[p].log[k].hit =>
                    /\ k = Len(frame[p].log)
                    /\ frame[p].ret = Returned(None)

\* C11 amended: one fetch call makes at most two requests for its URL and
\* never the same request twice: a HEAD, and one GET only when the HEAD
\* failed (exception or non-2xx status) or gave no image; once the GET has
\* failed too the call yields none with no further request, and it yields a
\* response exactly when its last request gave a 2xx image response.
C11_HeadThenOneGet ==
    \A p \in Threads :
        FetchDone(p) =>
            LET log == frame[p].log
                f == frame[p]
            IN  /\ Len(log) \in {1, 2}
                /\ \A k \in 1..Len(log) : log[k].url = f.url
                /\ log[1].method = "HEAD" /\ log[1].hit = ~FailedAnswer(f.hresp)
                /\ Len(log) = 2 <=> FailedAnswer(f.hresp)
                /\ Len(log) = 2 => log[2].method = "GET" /\ log[2].hit = ~FailedAnswer(f.resp)
                /\ f.ret.kind = "return"
                /\ f.ret.val = None <=> ~log[Len(log)].hit

\* the HEAD raised, the GET was answered 404, and the call yields none after
\* exactly these two requests
C11_Witness ==
    \E p \in Threads :
        /\ FetchDone(p)
        /\ frame[p].hresp = Raised
        /\ frame[p].resp.kind = "resp" /\ ~frame[p].resp.ok
        /\ Len(frame[p].log) = 2
        /\ frame[p].ret = Returned(None)

(***************************************************************************)
(* Claims about _fetch_og_image.                                           *)
(***************************************************************************)
OgDone(p) == frame[p].op = "_fetch_og_image" /\ frame[p].pc = "done"

\* the page was answered with parsable HTML and status 2xx
UsablePage(r) ==
    /\ r.kind = "resp" /\ r.parse /\ r.ok
    /\ r.ctype # None /\ Contains(r.ctype, <<"text/html">>)

PreviewKeys == <<"og:image", "twitter:image", "og:image:url">>

\* the positions in the document of the meta tags of a key
MetaPositions(body, key) ==
    { i \in 1..Len(body) : body[i].tag = "meta" /\ body[i].key = key }

MetaPositionsBy(body, attr, key) ==
    { i \in MetaPositions(body, key) : body[i].attr = attr }

Least(S) == CHOOSE i \in S : \A j \in S : i <= j

\* C12: the key priority is og:image > twitter:image > og:image:url, and of
\* the meta tags of one key, declared through property or name, the earliest
\* in document order is the one whose value is returned.
C12_FirstTagOfKeyWins ==
    \A p \in Threads :
        (OgDone(p) /\ UsablePage(frame[p].resp)) =>
            LET body == frame[p].resp.body
            IN  \A k \in 1..Len(PreviewKeys) :
                  ( /\ \A h \in 1..(k - 1) : MetaPositions(body, PreviewKeys[h]) = {}
                    /\ MetaPositions(body, PreviewKeys[k]) # {}
                    /\ Truthy(body[Least(MetaPositions(body, PreviewKeys[k]))].v1) )
                  => frame[p].ret =
                       Returned(urljoin(frame[p].product_url,
                                        body[Least(MetaPositions(body, PreviewKeys[k]))].v1))

\* the tag that stands for a key: the earliest declared through property,
\* and only when there is none the earliest declared through name; 0: none
ChosenPosition(body, key) ==
    IF MetaPositionsBy(body, "property", key) # {}
    THEN Least(MetaPositionsBy(body, "property", key))
    ELSE IF MetaPositionsBy(body, "name", key) # {}
    THEN Least(MetaPositionsBy(body, "name", key))
    ELSE 0

\* the keys whose chosen tag has a value
KeysWithValue(body) ==
    { k \in 1..Len(PreviewKeys) :
        /\ ChosenPosition(body, PreviewKeys[k]) # 0
        /\ Truthy(body[ChosenPosition(body, PreviewKeys[k])].v1) }

\* C12 amended: the key priority is og:image > twitter:image > og:image:url.
\* Within one key the tag used is the earliest in document order among those
\* declared through property, and only when there is none the earliest among
\* those declared through name; a key whose tag has no value is passed over
\* for the next key.  The result is the value of the first key that has one,
\* resolved against the page URL, or none.
C12_PropertyBeforeName ==
    \A p \in Threads :
        OgDone(p) =>
            LET r == frame[p].resp
                keys == KeysWithValue(r.body)
            IN  frame[p].ret =
                  IF UsablePage(r) /\ keys # {}
                  THEN Returned(urljoin(frame[p].product_url,
                           r.body[ChosenPosition(r.body, PreviewKeys[Least(keys)])].v1))
                  ELSE Returned(None)

\* a page whose og:image is declared through name first and through property
\* second: the value of the second tag is returned
C12_Witness ==
    \E p \in Threads :
        /\ OgDone(p)
        /\ UsablePage(frame[p].resp)
        /\ frame[p].resp.body = << Meta("name", "og:image", PlainImage),
                                    Meta("property", "og:image", SocialImage) >>
        /\ frame[p].ret = Returned(SocialImage)

(***************************************************************************)
(* Claims about the size rewrite.                                          *)
(***************************************************************************)
SizeDone(p) == frame[p].op = "upgrade_size" /\ frame[p].pc = "done"

SizeDigits == {"0", "1", "2", "3", "4", "5", "6", "7", "8", "9"}

\* /<digits>px@1x/ occupies positions i..j of u
IsSizeSegment(u, i, j) ==
    /\ 1 <= i /\ j <= Len(u) /\ j - i >= 3
    /\ u[i] = "/" /\ u[j] = "/" /\ u[j - 1] = "px@1x"
    /\ \A k \in (i + 1)..(j - 2) : u[k] \in SizeDigits

SizeSegments(u) ==
    { ij \in (1..Len(u)) \X (1..Len(u)) : IsSizeSegment(u, ij[1], ij[2]) }

\* u has a size segment and each of its size segments is /1000px@1x/
AtTargetSize(u) ==
    /\ SizeSegments(u) # {}
    /\ \A ij \in SizeSegments(u) :
         SubSeq(u, ij[1], ij[2]) = <<"/", "1", "0", "0", "0", "px@1x", "/">>

\* C13: the size rewrite is idempotent: a URL already at /1000px@1x/ is
\* returned unchanged, and rewriting twice gives the same URL as rewriting
\* once.
C13_RewriteIdempotent ==
    \A p \in Threads :
        SizeDone(p) =>
            /\ frame[p].ret = Returned(frame[p].test_url)
            /\ AtTargetSize(frame[p].url) => frame[p].test_url = frame[p].url
            /\ SizeSegments(frame[p].url) = {} => frame[p].test_url = frame[p].url

\* two size segments that share a slash: the first rewrite changes the URL
\* (its first segment only), the second changes nothing more
C13_Witness ==
    \E p \in Threads :
        /\ SizeDone(p)
        /\ frame[p].url = <<"/", "1", "px@1x", "/", "1", "px@1x", "/">>
        /\ frame[p].test_url = <<"/", "1", "0", "0", "0", "px@1x", "/", "1", "px@1x", "/">>
        /\ frame[p].ret = Returned(frame[p].test_url)

(***************************************************************************)
(* Claims about the order of the steps of resolve_image_url.               *)
(***************************************************************************)
OnCatalogDomain(url) ==
    \E i \in 1..Len(netloc(url)) : Lower(netloc(url))[i] = "crestron.com"

\* the requests made to validate the proposed image: a HEAD, and a GET when
\* the HEAD gave no image
ProposedRequests(f) ==
    IF ~Truthy(f.image_url) THEN 0 ELSE IF f.log[1].hit THEN 1 ELSE 2

ProposedAccepted(f) ==
    /\ Truthy(f.image_url)
    /\ f.log[ProposedRequests(f)].hit
    /\ ~HasRejectionKeyword(f.test_url)

\* the number of times the product page was requested after the proposed image
PageGets(f) ==
    Cardinality({ k \in (ProposedRequests(f) + 1)..Len(f.log) :
                    f.log[k].method = "GET" /\ f.log[k].url = f.product_url })

StepOrder(f) ==
    LET n == ProposedRequests(f)
    IN  /\ Len(f.log) >= n
        /\ \A k \in 1..n : f.log[k].url = f.test_url
        /\ n >= 1 => f.log[1].method = "HEAD"
        /\ ProposedAccepted(f) <=> f.via = "proposed"
        /\ ProposedAccepted(f) => f.ret = Returned(f.test_url) /\ Len(f.log) = n
        /\ (~ProposedAccepted(f) /\ ~Truthy(f.product_url)) =>
               f.ret = Returned(None) /\ Len(f.log) = n
        /\ (~ProposedAccepted(f) /\ Truthy(f.product_url)) =>
               /\ Len(f.log) > n
               /\ f.log[n + 1].method = "GET" /\ f.log[n + 1].url = f.product_url
               /\ f.via \in {"scrape", "og", "none"}
               /\ f.via = "scrape" => OnCatalogDomain(f.product_url) /\ f.ret.val # None
               /\ f.via = "og" => f.ret = Returned(f.og) /\ f.log[Len(f.log)].url = f.og
               /\ f.via = "none" => f.ret = Returned(None)
               /\ f.via \in {"og", "none"} =>
                      IF OnCatalogDomain(f.product_url) THEN PageGets(f) >= 2
                      ELSE PageGets(f) = 1
        /\ (\E i \in 1..Len(f.image_url) : Lower(f.image_url)[i] = "favicon") =>
               /\ f.via # "proposed"
               /\ (Truthy(f.product_url) /\ OnCatalogDomain(f.product_url)) => PageGets(f) >= 1

\* C14: resolve_image_url runs its steps in order, first success wins: the
\* proposed image, then the scrape of a product page on the catalog domain,
\* then the preview image of the page, else none; a proposed image whose URL
\* holds "favicon" is discarded and the page is scraped.
C14_StepsInOrder ==
    \A p \in Threads :
        ImgDone(p) => frame[p].ret.kind = "return" /\ StepOrder(frame[p])

\* the steps of the calls that return are in that order
StepsInOrderWhenReturned ==
    \A p \in Threads :
        (ImgDone(p) /\ frame[p].ret.kind = "return") => StepOrder(frame[p])

(***************************************************************************)
(* Claims about the candidates gathered from a product page.               *)
(***************************************************************************)
\* the URLs that one tag contributes, in the order they are written in it
TagUrls(t, page_url) ==
    IF t.tag = "img" THEN ImgCandidates(t, page_url)
    ELSE IF t.tag = "source" THEN SourceCandidates(t, page_url)
    ELSE <<>>

RECURSIVE DocumentOrder(_, _)
\* the URLs on the CDN path that the tags of the page contribute, tag by tag
\* in document order
DocumentOrder(body, page_url) ==
    IF body = <<>> THEN <<>>
    ELSE TagUrls(Head(body), page_url) \o DocumentOrder(Tail(body), page_url)

RECURSIVE FirstOccurrences(_)
FirstOccurrences(us) ==
    IF us = <<>> THEN <<>>
    ELSE LET init == FirstOccurrences(SubSeq(us, 1, Len(us) - 1))
             last == us[Len(us)]
         IN  IF \E k \in 1..Len(init) : init[k] = last THEN init ELSE Append(init, last)

\* the candidates of a page were gathered
Gathered(f) ==
    /\ f.op = "_extract_crestron_best_image" /\ f.pc = "done"
    /\ UsablePage(f.resp)

\* C15: the candidates gathered from a product page are in document order
\* across img (src, data-src) and source (srcset) elements, are all on the CDN
\* path, and are deduplicated by string equality keeping the first
\* occurrence.
C15_CandidatesInDocumentOrder ==
    \A p \in Threads :
        Gathered(frame[p]) =>
            LET f == frame[p]
            IN  /\ f.uniq = FirstOccurrences(DocumentOrder(f.resp.body, f.product_url))
                /\ \A k \in 1..Len(f.uniq) : Contains(f.uniq[k], WidenPath)
                /\ \A k \in 1..Len(f.uniq), j \in 1..Len(f.uniq) :
                       f.uniq[k] = f.uniq[j] => k = j

\* what the gathered candidates are: those of every img element in document
\* order, then those of every source element in document order, all on the
\* CDN path, each kept at its first occurrence; and when the tags give none,
\* after a second request of the page, its preview image unless that looks
\* like a logo
CandidatesImgThenSource ==
    \A p \in Threads :
        Gathered(frame[p]) =>
            LET f == frame[p]
                pick(tag) == [k \in 1..Len(f.resp.body) |->
                                IF f.resp.body[k].tag = tag THEN f.resp.body[k] ELSE NoTag]
                tags == FirstOccurrences(DocumentOrder(pick("img"), f.product_url)
                                           \o DocumentOrder(pick("source"), f.product_url))
            IN  IF tags # <<>>
                THEN /\ f.uniq = tags
                     /\ \A k \in 1..Len(f.uniq) : Contains(f.uniq[k], WidenPath)
                     /\ Len(f.log) = 1
                ELSE /\ f.uniq = IF Truthy(f.og) /\ ~HasRejectionKeyword(f.og)
                                 THEN <<f.og>> ELSE <<>>
                     /\ Len(f.log) = 2

\* validation tries the candidates in their order: the first request after
\* that of the page is for the first candidate that is no logo, or for its
\* size upgrade
ValidationInCandidateOrder ==
    \A p \in Threads :
        (frame[p].op = "resolve_image_url" /\ frame[p].uniq # <<>>
           /\ frame[p].pc \in {"img_any", "done"} /\ frame[p].ret.kind # "raise") =>
            LET f == frame[p]
                page == ProposedRequests(f) + 1
                tried == { k \in 1..Len(f.uniq) : ~HasRejectionKeyword(f.uniq[k]) }
                first == f.uniq[Least(tried)]
            IN  (Len(f.log) > page /\ f.log[page + 1].url # f.product_url) =>
                   /\ tried # {}
                   /\ f.log[page + 1].url \in {first, upgrade_size(first)}

(***************************************************************************)
(* Claims about the cache key.                                             *)
(***************************************************************************)
\* proposed_url or ''
OrEmpty(u) == IF u = None THEN <<>> ELSE u

SamePair(f, g) == f.name = g.name /\ OrEmpty(f.proposed) = OrEmpty(g.proposed)

\* C16: two calls of resolve_product_url whose (name, proposed URL or empty)
\* pairs differ have different cache keys, and neither reads the cache entry
\* of the other.
C16_KeyInjective ==
    \A p, q \in Threads :
        (UrlDone(p) /\ UrlDone(q) /\ ~SamePair(frame[p], frame[q])) =>
            /\ frame[p].key # frame[q].key
            /\ frame[q].via # "cache"

(***************************************************************************)
(* Claims about calls that run at the same time.                           *)
(***************************************************************************)
\* a step keeps every cache entry it finds
CacheEntriesKept ==
    \A k \in DOMAIN URL_CACHE :
        k \in DOMAIN URL_CACHE' /\ URL_CACHE'[k] = URL_CACHE[k]

SameKeySameUrl ==
    \A p, q \in Threads :
        (UrlDone(p) /\ UrlDone(q) /\ frame[p].key = frame[q].key) =>
            frame[p].ret = frame[q].ret

\* C17: once URL_CACHE holds a value for a key no step replaces it by another
\* value, and in every interleaving of two calls on the same key the calls
\* that complete return the same URL.
C17_CachedValueNeverReplaced == [][CacheEntriesKept]_vars /\ []SameKeySameUrl

\* with one call at a time no step replaces a cache entry
C17_Sequential == [][CacheEntriesKept]_vars

====
